---- MODULE Spec2Model ----
(***************************************************************************)
(* LifeSync backend: the Gamification Engine                               *)
(* (app/services/gamification_service.py) and the smart-home Automation    *)
(* Evaluator (app/api/v1/endpoints/smart_home.py).                         *)
(*                                                                         *)
(* Time is counted in whole days for the gamification engine (Day == 1)    *)
(* and in seconds for the automation evaluator.  The XP multiplier is a    *)
(* float in the source; it is kept here in hundredths (1.0 is 100), which  *)
(* is exact for the levels the model reaches (level <= 8).                 *)
(***************************************************************************)
EXTENDS Integers, Sequences, FiniteSets, TLC

VARIABLES
    profiles,      \* table user_profiles: rows, id = position
    badges,        \* table badges: rows, id = position
    user_badges,   \* table user_badges: rows, id = position
    goals,         \* table goals: rows, id = position
    now,           \* datetime.now() seen by the gamification engine, in days
    call,          \* the arguments and the profile row at the start of the last process_progress
    result,        \* what the last process_progress returned
    reward_cache,  \* the Redis keys rewards:{user_id}:{timestamp}
    clock,         \* datetime.now() seen by the smart-home endpoints, in seconds
    ret,           \* the last call of a pure function: its arguments and the value returned
    devices,       \* table smart_devices: rows, id = position
    rule_store,    \* the Redis keys automation_rule:{user_id}:{timestamp}
    handled,       \* the last run of process_automation_rules: its event and its effects
    DEFAULT_PREFERENCES,  \* the class attribute UserPreferenceService.DEFAULT_PREFERENCES
    pref_store,    \* the Redis keys preferences:{user_id}
    pref_ret,      \* the last call of the preference service: its arguments and its return
    activity,      \* the days on which process_progress was called, and the calls counted
    sessions       \* the database sessions of the requests that are being served

gvars == <<profiles, badges, user_badges, goals, now, call, result, reward_cache>>

pvars == <<ret>>

avars == <<devices, rule_store, handled>>

uvars == <<DEFAULT_PREFERENCES, pref_store, pref_ret>>

hvars == <<activity>>

rvars == <<sessions>>

vars == <<gvars, clock, pvars, avars, uvars, hvars, rvars>>

\* a nullable column that holds no value is <<>>, one that holds v is <<v>>
None == <<>>
Some(v) == <<v>>
ValueOf(column) == column[1]

\* before the first call
NoCall == [user_id |-> 0]
NoResult == [rewards |-> <<>>]
NoRet == [fn |-> "none"]
NotHandled == [user_id |-> 0]
NoPrefCall == [fn |-> "none"]
NoActivity == [days |-> {}, calls |-> 0, run |-> 0, start |-> 0, lazy |-> FALSE]
NoSessions == <<>>

\* ---------------------------------------------------------------- bounds
MaxXP == 1200
MaxTime == 2
MaxRules == 2
MaxCalls == 3

\* ------------------------------------------------------------- constants
XP_PROGRESS_LOGGED == 10
XP_GOAL_COMPLETED == 100
XP_STREAK_MAINTAINED == 50
XP_HEALTH_MILESTONE == 75
XP_FINANCIAL_MILESTONE == 75
LEVEL_MULTIPLIER == 1000
Day == 1
WeekDays == 7
QuarterDays == 90

\* UserPreferenceService.DEFAULT_PREFERENCES as the class body defines it: the
\* notifications and the health category, with the fields the repository's tests update
DefaultPreferences ==
    [notifications |-> [email |-> TRUE, push |-> TRUE],
     health |-> [daily_step_goal |-> 10000, sleep_goal_hours |-> 8]]

UserId == 1
Categories == {"health", "finance", "personal"}

\* ACHIEVEMENT_CRITERIA, in the order the dict lists them
AchievementIds ==
    <<"early_bird", "night_owl", "consistency_king", "health_master", "savings_expert">>

AchievementXP(achievement_id) ==
    CASE achievement_id = "early_bird" -> 200
      [] achievement_id = "night_owl" -> 200
      [] achievement_id = "consistency_king" -> 300
      [] achievement_id = "health_master" -> 400
      [] achievement_id = "savings_expert" -> 500

Min(a, b) == IF a <= b THEN a ELSE b

\* ------------------------------------------------------ table lookups
\* db.query(T).filter(...).first(): the first row that matches, or None
FirstIndex(table, Match(_)) ==
    IF \E i \in 1..Len(table) : Match(table[i])
    THEN CHOOSE i \in 1..Len(table) :
            /\ Match(table[i])
            /\ \A j \in 1..(i - 1) : ~Match(table[j])
    ELSE 0

\* ---------------------------------------------------------- Redis
\* redis_cache.set_key: SETEX key expiry value, at the instant t
set_key(store, key, value, t, expiry) ==
    {e \in store : e.key /= key}
        \cup {[key |-> key, value |-> value, expires_at |-> t + expiry]}

\* the keys Redis still holds at the instant t
Live(store, t) == {e \in store : e.expires_at > t}

\* ------------------------------------------------- the reward pipeline
\* the streak bonus without its cap
_calculate_multiplier_Uncapped(profile) ==
    100 + 5 * (profile.level - 1) + profile.streak_count * 10

\* the multiplier in hundredths: 1.0 + 0.05*(level-1) + min(streak*0.1, 1.0)
_calculate_multiplier(profile) ==
    LET base_multiplier == 100
        level_bonus == 5 * (profile.level - 1)
        streak_bonus == Min(profile.streak_count * 10, 100)
    IN  base_multiplier + level_bonus + streak_bonus

\* the product rounded to the nearest integer, halves upwards
XpEarned_RoundedHalfUp(profile) ==
    (XP_PROGRESS_LOGGED * _calculate_multiplier(profile) + 50) \div 100

\* int(base_xp * multiplier): truncation of the product
XpEarned(profile) == (XP_PROGRESS_LOGGED * _calculate_multiplier(profile)) \div 100

\* st is the engine's working state: [profile, rewards, badges, user_badges]
_process_streak_StrictlyWithinDay(st, t) ==
    IF st.profile.last_activity /= None
    THEN IF t - ValueOf(st.profile.last_activity) < Day
         THEN [st EXCEPT
                 !.profile.streak_count = @ + 1,
                 !.profile.xp = @ + XP_STREAK_MAINTAINED,
                 !.rewards = Append(@, [type |-> "streak",
                                        count |-> st.profile.streak_count + 1,
                                        xp |-> XP_STREAK_MAINTAINED])]
         ELSE [st EXCEPT !.profile.streak_count = 1]
    ELSE st

\* the streak counted on across a gap of more than a day
_process_streak_NoReset(st, t) ==
    IF st.profile.last_activity /= None
    THEN [st EXCEPT
            !.profile.streak_count = @ + 1,
            !.profile.xp = @ + XP_STREAK_MAINTAINED,
            !.rewards = Append(@, [type |-> "streak",
                                   count |-> st.profile.streak_count + 1,
                                   xp |-> XP_STREAK_MAINTAINED])]
    ELSE st

_process_streak(st, t) ==
    IF st.profile.last_activity /= None
    THEN IF t - ValueOf(st.profile.last_activity) <= Day
         THEN [st EXCEPT
                 !.profile.streak_count = @ + 1,
                 !.profile.xp = @ + XP_STREAK_MAINTAINED,
                 !.rewards = Append(@, [type |-> "streak",
                                        count |-> st.profile.streak_count + 1,
                                        xp |-> XP_STREAK_MAINTAINED])]
         ELSE [st EXCEPT !.profile.streak_count = 1]
    ELSE st

\* the health milestone granted whatever the category of the goal
_process_goal_completion_AlwaysHealth(st, goal) ==
    [st EXCEPT
        !.profile.xp = @ + XP_GOAL_COMPLETED + XP_HEALTH_MILESTONE,
        !.rewards = @ \o <<[type |-> "completion", xp |-> XP_GOAL_COMPLETED],
                           [type |-> "health_milestone", xp |-> XP_HEALTH_MILESTONE]>>]

_process_goal_completion(st, goal) ==
    LET s1 == [st EXCEPT
                 !.profile.xp = @ + XP_GOAL_COMPLETED,
                 !.rewards = Append(@, [type |-> "completion", xp |-> XP_GOAL_COMPLETED])]
    IN  IF goal.category = "health"
        THEN [s1 EXCEPT
                 !.profile.xp = @ + XP_HEALTH_MILESTONE,
                 !.rewards = Append(@, [type |-> "health_milestone",
                                        xp |-> XP_HEALTH_MILESTONE])]
        ELSE IF goal.category = "finance"
        THEN [s1 EXCEPT
                 !.profile.xp = @ + XP_FINANCIAL_MILESTONE,
                 !.rewards = Append(@, [type |-> "finance_milestone",
                                        xp |-> XP_FINANCIAL_MILESTONE])]
        ELSE s1

\* the threshold checked once instead of in a loop
_check_level_up_Once(st) ==
    IF st.profile.xp >= st.profile.level * LEVEL_MULTIPLIER
    THEN [st EXCEPT
             !.profile.level = @ + 1,
             !.rewards = Append(@, [type |-> "level_up",
                                    new_level |-> st.profile.level + 1])]
    ELSE st

RECURSIVE _check_level_up(_)
_check_level_up(st) ==
    IF st.profile.xp >= st.profile.level * LEVEL_MULTIPLIER
    THEN _check_level_up([st EXCEPT
             !.profile.level = @ + 1,
             !.rewards = Append(@, [type |-> "level_up",
                                    new_level |-> st.profile.level + 1])])
    ELSE st

\* ------------------------------------------------------- achievements
\* the existence check looking at the badge id alone, whatever the badge's name
_has_achievement_AnyName(st, profile_id, achievement_id) ==
    \E i \in 1..Len(st.user_badges) :
        /\ st.user_badges[i].user_profile_id = profile_id
        /\ st.user_badges[i].badge_id \in 1..Len(st.badges)
        /\ st.badges[st.user_badges[i].badge_id].name /= achievement_id

\* the existence check that finds nothing
_has_achievement_Never(st, profile_id, achievement_id) == FALSE

_has_achievement(st, profile_id, achievement_id) ==
    \E i \in 1..Len(st.user_badges) :
        /\ st.user_badges[i].user_profile_id = profile_id
        /\ st.user_badges[i].badge_id \in 1..Len(st.badges)
        /\ st.badges[st.user_badges[i].badge_id].name = achievement_id

\* The goals of the category created in the window: every one completed, and at least
\* one.  created_at is the goal's creation timestamp, the column the two mastery queries
\* filter on (models/goal.py keeps the creation time in start_date).
AllCompletedSince(db, user_id, category, since) ==
    LET found == {i \in 1..Len(db) :
                    /\ db[i].user_id = user_id
                    /\ db[i].category = category
                    /\ db[i].created_at >= since}
    IN  IF found /= {} THEN \A i \in found : db[i].completed ELSE FALSE

\* db: the goals table as the session finds it
_check_health_mastery(db, user_id, t) ==
    AllCompletedSince(db, user_id, "health", t - WeekDays * Day)

_check_savings_expertise(db, user_id, t) ==
    AllCompletedSince(db, user_id, "finance", t - QuarterDays * Day)

_meets_achievement_criteria(st, achievement_id, t) ==
    IF achievement_id = "consistency_king"
    THEN st.profile.streak_count >= 7
    ELSE IF achievement_id = "health_master"
    THEN _check_health_mastery(st.goals, st.profile.user_id, t)
    ELSE IF achievement_id = "savings_expert"
    THEN _check_savings_expertise(st.goals, st.profile.user_id, t)
    ELSE FALSE

BadgeNamed(achievement_id) == [name |-> achievement_id]

\* the award without the achievement's XP
_award_achievement_NoXP(st, achievement_id) ==
    LET found == FirstIndex(st.badges, LAMBDA b : b.name = achievement_id)
        badges1 == IF found = 0 THEN Append(st.badges, BadgeNamed(achievement_id))
                   ELSE st.badges
        badge_id == IF found = 0 THEN Len(badges1) ELSE found
    IN  [st EXCEPT
            !.badges = badges1,
            !.user_badges = Append(@, [user_profile_id |-> st.profile.id,
                                       badge_id |-> badge_id])]

\* creates the Badge row if absent, adds the UserBadge row and the achievement's XP
_award_achievement(st, achievement_id) ==
    LET found == FirstIndex(st.badges, LAMBDA b : b.name = achievement_id)
        badges1 == IF found = 0 THEN Append(st.badges, BadgeNamed(achievement_id))
                   ELSE st.badges
        badge_id == IF found = 0 THEN Len(badges1) ELSE found
    IN  [st EXCEPT
            !.badges = badges1,
            !.user_badges = Append(@, [user_profile_id |-> st.profile.id,
                                       badge_id |-> badge_id]),
            !.profile.xp = @ + AchievementXP(achievement_id)]

\* the loop of _check_achievements from position i of ACHIEVEMENT_CRITERIA on
RECURSIVE CheckAchievementsFrom(_, _, _)
CheckAchievementsFrom(st, i, t) ==
    IF i > Len(AchievementIds) THEN st
    ELSE LET achievement_id == AchievementIds[i]
         IN  IF /\ ~_has_achievement(st, st.profile.id, achievement_id)
                /\ _meets_achievement_criteria(st, achievement_id, t)
             THEN CheckAchievementsFrom(
                      [_award_achievement(st, achievement_id) EXCEPT
                          !.rewards = Append(@, [type |-> "achievement",
                                                 name |-> achievement_id,
                                                 xp |-> AchievementXP(achievement_id)])],
                      i + 1, t)
             ELSE CheckAchievementsFrom(st, i + 1, t)

_check_achievements(st, t) == CheckAchievementsFrom(st, 1, t)

\* ------------------------------------------------------ process_progress
NewProfile(id, user_id) ==
    [id |-> id, user_id |-> user_id, level |-> 1, xp |-> 0, streak_count |-> 0,
     last_activity |-> None]

\* a profile row added on every call, whether or not the user has one
_get_or_create_profile_AlwaysCreates(user_id) ==
    Append(profiles, NewProfile(Len(profiles) + 1, user_id))

\* the profiles table after _get_or_create_profile
_get_or_create_profile(user_id) ==
    IF FirstIndex(profiles, LAMBDA p : p.user_id = user_id) = 0
    THEN Append(profiles, NewProfile(Len(profiles) + 1, user_id))
    ELSE profiles

\* the achievements evaluated on the profile as it was before the streak update
Pipeline_AchievementsBeforeStreak(db, profile, goal, t) ==
    LET xp_earned == XpEarned(profile)
        s1 == [profile |-> [profile EXCEPT !.xp = @ + xp_earned],
               rewards |-> <<[type |-> "xp", amount |-> xp_earned]>>,
               badges |-> badges,
               user_badges |-> user_badges,
               goals |-> db]
        s2 == _check_achievements(s1, t)
        s3 == _process_streak(s2, t)
        s4 == IF goal.completed THEN _process_goal_completion(s3, goal) ELSE s3
    IN  _check_level_up(s4)

\* the level check made before the goal completion step
Pipeline_LevelUpBeforeCompletion(db, profile, goal, t) ==
    LET xp_earned == XpEarned(profile)
        s1 == [profile |-> [profile EXCEPT !.xp = @ + xp_earned],
               rewards |-> <<[type |-> "xp", amount |-> xp_earned]>>,
               badges |-> badges,
               user_badges |-> user_badges,
               goals |-> db]
        s2 == _process_streak(s1, t)
        s3 == _check_level_up(s2)
        s4 == IF goal.completed THEN _process_goal_completion(s3, goal) ELSE s3
    IN  _check_achievements(s4, t)

\* the level check run once more after the achievements
Pipeline_LevelCheckAfterAchievements(db, profile, goal, t) ==
    LET xp_earned == XpEarned(profile)
        s1 == [profile |-> [profile EXCEPT !.xp = @ + xp_earned],
               rewards |-> <<[type |-> "xp", amount |-> xp_earned]>>,
               badges |-> badges,
               user_badges |-> user_badges,
               goals |-> db]
        s2 == _process_streak(s1, t)
        s3 == IF goal.completed THEN _process_goal_completion(s2, goal) ELSE s2
        s4 == _check_level_up(s3)
    IN  _check_level_up(_check_achievements(s4, t))

\* steps 1 to 4 of process_progress, which touch nothing but the profile object
Steps1To4(db, profile, goal, t) ==
    LET xp_earned == XpEarned(profile)
        s1 == [profile |-> [profile EXCEPT !.xp = @ + xp_earned],
               rewards |-> <<[type |-> "xp", amount |-> xp_earned]>>,
               badges |-> badges,
               user_badges |-> user_badges,
               goals |-> db]
        s2 == _process_streak(s1, t)
        s3 == IF goal.completed THEN _process_goal_completion(s2, goal) ELSE s2
    IN  _check_level_up(s3)

\* steps 1 to 5 of process_progress on the profile row, at time t
Pipeline(db, profile, goal, t) ==
    LET xp_earned == XpEarned(profile)
        s1 == [profile |-> [profile EXCEPT !.xp = @ + xp_earned],
               rewards |-> <<[type |-> "xp", amount |-> xp_earned]>>,
               badges |-> badges,
               user_badges |-> user_badges,
               goals |-> db]
        s2 == _process_streak(s1, t)
        s3 == IF goal.completed THEN _process_goal_completion(s2, goal) ELSE s2
        s4 == _check_level_up(s3)
    IN  _check_achievements(s4, t)

\* The profile row as the commits made before the last one left it: _award_achievement
\* commits the session, and with it the XP, level and streak the call has set so far;
\* without an award nothing but the creation of the row has been committed.
Committed(before, st) ==
    IF \E i \in 1..Len(st.rewards) : st.rewards[i].type = "achievement"
    THEN [st.profile EXCEPT !.last_activity = before.last_activity]
    ELSE before

\* db: the goals table as the session finds it; commit_fails: the db.commit() that ends
\* the call raises
process_progress(db, user_id, goal_id, commit_fails) ==
    LET profs1 == _get_or_create_profile(user_id)
        pid == FirstIndex(profs1, LAMBDA p : p.user_id = user_id)
        goal == db[goal_id]
        st == Pipeline(db, profs1[pid], goal, now)
        saved == [st.profile EXCEPT !.last_activity = Some(now)]
    IN  /\ profs1[pid].xp < MaxXP
        /\ badges' = st.badges
        /\ user_badges' = st.user_badges
        /\ call' = [user_id |-> user_id, goal |-> goal, goal_id |-> goal_id, at |-> now,
                    had_profile |-> (Len(profs1) = Len(profiles)),
                    before |-> profs1[pid],
                    before_badges |-> user_badges,
                    before_all_badges |-> badges,
                    before_cache |-> reward_cache,
                    committed |-> ~commit_fails]
        /\ IF commit_fails
           THEN /\ profiles' = [profs1 EXCEPT ![pid] = Committed(profs1[pid], st)]
                /\ reward_cache' = reward_cache
                /\ result' = [error |-> "commit"]
           ELSE /\ profiles' = [profs1 EXCEPT ![pid] = saved]
                /\ reward_cache' = set_key(reward_cache, <<"rewards", user_id, now>>,
                                           st.rewards, now, Day)
                /\ result' = [profile |-> [level |-> saved.level, xp |-> saved.xp,
                                           streak |-> saved.streak_count],
                              rewards |-> st.rewards]
        /\ UNCHANGED <<now, clock, pvars, avars, uvars, rvars>>

ProcessProgress ==
    \E g \in 1..Len(goals), commit_fails \in BOOLEAN :
        /\ process_progress(goals, UserId, g, commit_fails)
        /\ UNCHANGED <<goals, hvars>>

\* the wall clock moves on by one day
Tick ==
    /\ now < MaxTime
    /\ now' = now + 1
    /\ reward_cache' = Live(reward_cache, now + 1)
    /\ UNCHANGED <<profiles, badges, user_badges, goals, call, result, clock, pvars, avars, uvars, hvars, rvars>>

\* The profile rows a database can hold when the engine starts: none (the row is
\* created lazily), and the rows the repository's tests insert.
StartProfiles ==
    { <<>>,
      <<[NewProfile(1, UserId) EXCEPT !.xp = 990]>>,
      <<[NewProfile(1, UserId) EXCEPT !.xp = 990, !.last_activity = Some(0)]>>,
      <<[NewProfile(1, UserId) EXCEPT !.streak_count = 6, !.last_activity = Some(0)]>> }

\* the target of the goals, as in the repository's tests
TargetValue == 100

GoalRow(category, completed, created_at) ==
    [user_id |-> UserId, category |-> category, completed |-> completed,
     created_at |-> created_at, target_value |-> TargetValue,
     current_value |-> IF completed THEN TargetValue ELSE 0]

\* The goals tables the engine is run against: the completed health goal of the
\* repository's tests, alone and next to other goals; one table holds a health goal
\* older than the week that health mastery looks at.
StartGoals ==
    { <<GoalRow("health", TRUE, 0)>>,
      <<GoalRow("health", TRUE, 0), GoalRow("finance", TRUE, 0)>>,
      <<GoalRow("personal", FALSE, 0), GoalRow("health", FALSE, 0)>>,
      <<GoalRow("finance", FALSE, 0), GoalRow("personal", TRUE, 0)>>,
      <<GoalRow("health", FALSE, 0 - (WeekDays + 1) * Day), GoalRow("health", TRUE, 0)>> }

Init ==
    /\ profiles \in StartProfiles
    /\ badges = <<>>
    /\ user_badges = <<>>
    /\ goals \in StartGoals
    /\ now = 0
    /\ call = NoCall
    /\ result = NoResult
    /\ reward_cache = {}
    /\ clock = 0
    /\ ret = NoRet
    /\ devices = <<>>
    /\ rule_store = {}
    /\ handled = NotHandled
    /\ DEFAULT_PREFERENCES = DefaultPreferences
    /\ pref_store = {}
    /\ pref_ret = NoPrefCall
    /\ activity = NoActivity
    /\ sessions = NoSessions

Next == ProcessProgress \/ Tick

Spec == Init /\ [][Next]_vars

\* ------------------------------------- POST /goals/{goal_id}/progress
\* log_progress with completed also cleared by a value below the target
log_progress_RecomputesCompleted(user_id, goal_id, value, commit_fails) ==
    /\ goals[goal_id].user_id = user_id
    /\ LET db == [goals EXCEPT
                    ![goal_id].current_value = value,
                    ![goal_id].completed = (value >= goals[goal_id].target_value)]
       IN  /\ goals' = db
           /\ process_progress(db, user_id, goal_id, commit_fails)

\* The goal of the user is looked up (404 otherwise), takes the logged value, is marked
\* completed when the value reaches the target, and is committed; process_progress then
\* runs on it.  The ProgressLog row added on the way is read by nothing modelled here.
log_progress(user_id, goal_id, value, commit_fails) ==
    /\ goals[goal_id].user_id = user_id
    /\ LET db == [goals EXCEPT
                    ![goal_id].current_value = value,
                    ![goal_id].completed = @ \/ value >= goals[goal_id].target_value]
       IN  /\ goals' = db
           /\ process_progress(db, user_id, goal_id, commit_fails)

\* the values logged: below the target, and the target
LogValues == {40, TargetValue}

\* The history of the calls: the days with a call, the number of calls, and the number
\* of calls since streak_count was last set back (run) on top of the count it then
\* had (start).
Recorded(user_id) ==
    LET rows == {i \in 1..Len(profiles) : profiles[i].user_id = user_id}
        gap == \E i \in rows :
                  /\ profiles[i].last_activity /= None
                  /\ now - ValueOf(profiles[i].last_activity) > Day
    IN  [days |-> activity.days \cup {now},
         calls |-> activity.calls + 1,
         run |-> IF gap THEN 1 ELSE activity.run + 1,
         start |-> IF gap THEN 0 ELSE activity.start,
         lazy |-> activity.lazy]

\* the requests whose commits succeed
LogProgress ==
    /\ activity.calls < MaxCalls
    /\ \E g \in 1..Len(goals), value \in LogValues :
          log_progress(UserId, g, value, FALSE)
    /\ activity' = Recorded(UserId)

\* the goals tables with a goal still to complete, and the profile tables without
\* XP: no row, and a row with a streak
OpenGoals == {table \in StartGoals : \E i \in 1..Len(table) : ~table[i].completed}

LoggedProfiles == {table \in StartProfiles : \A i \in 1..Len(table) : table[i].xp = 0}

InitGoals ==
    /\ profiles \in LoggedProfiles
    /\ badges = <<>>
    /\ user_badges = <<>>
    /\ goals \in OpenGoals
    /\ now = 0
    /\ call = NoCall
    /\ result = NoResult
    /\ reward_cache = {}
    /\ clock = 0
    /\ ret = NoRet
    /\ devices = <<>>
    /\ rule_store = {}
    /\ handled = NotHandled
    /\ DEFAULT_PREFERENCES = DefaultPreferences
    /\ pref_store = {}
    /\ pref_ret = NoPrefCall
    /\ activity = [NoActivity EXCEPT
                      !.lazy = (profiles = <<>>),
                      !.start = IF profiles = <<>> THEN 0 ELSE profiles[1].streak_count]
    /\ sessions = NoSessions

NextGoals == LogProgress \/ Tick

SpecGoals == InitGoals /\ [][NextGoals]_vars

\* ------------------------- two process_progress calls for one user, interleaved
\* Each request has its own Session (get_db) on the one SQLite file.  autoflush is off
\* and a commit expires the session's objects: a query reads what is committed, the
\* UPDATE of a commit sets the attributes that the session changed to the values the
\* session computed, and the first attribute read after a commit loads the row again.
\* A request is followed statement by statement: the load of the profile with steps 1
\* to 4, which touch only the session's object; for each achievement the existence
\* check with the criteria, and the award with its commit; the last commit with the
\* return.  Within one server process the handlers never suspend between these
\* statements; they interleave when several server processes share the database.
Requests == {1, 2}

Idle ==
    [pc |-> "idle", k |-> 0, goal |-> 0, profile |-> NewProfile(0, 0),
     loaded |-> NewProfile(0, 0), expired |-> FALSE, rewards |-> <<>>,
     returned |-> NewProfile(0, 0)]

RowOf(user_id) == FirstIndex(profiles, LAMBDA p : p.user_id = user_id)

\* the UPDATE that leaves every attribute of the row untouched
Flushed_Nothing(row, session) == row

\* the UPDATE of a commit: the attributes whose value the session changed
Flushed(row, session) ==
    [a \in DOMAIN row |->
        IF session.profile[a] /= session.loaded[a] THEN session.profile[a] ELSE row[a]]

\* the session's profile object at its next attribute read
Refreshed(session, row) ==
    IF session.expired
    THEN [session EXCEPT !.profile = row, !.loaded = row, !.expired = FALSE]
    ELSE session

\* the position after achievement k: the next achievement, or the last commit
After(session) ==
    IF session.k < Len(AchievementIds)
    THEN [session EXCEPT !.pc = "check", !.k = @ + 1]
    ELSE [session EXCEPT !.pc = "commit"]

\* the view of the database that the achievement functions are given
View(session) ==
    [profile |-> session.profile, rewards |-> session.rewards, badges |-> badges,
     user_badges |-> user_badges, goals |-> goals]

\* _get_or_create_profile and steps 1 to 4
Begin(r, user_id, goal_id) ==
    LET profs1 == _get_or_create_profile(user_id)
        pid == FirstIndex(profs1, LAMBDA p : p.user_id = user_id)
        st == Steps1To4(goals, profs1[pid], goals[goal_id], now)
    IN  /\ sessions.req[r].pc = "idle"
        /\ profiles' = profs1
        /\ sessions' = [sessions EXCEPT
               !.req[r] = [Idle EXCEPT !.pc = "check", !.k = 1, !.goal = goal_id,
                                       !.profile = st.profile, !.loaded = profs1[pid],
                                       !.rewards = st.rewards],
               !.overlapped = @ \/ \E other \in Requests \ {r} :
                                     sessions.req[other].pc \notin {"idle", "done"}]
        /\ UNCHANGED <<badges, user_badges, goals, now, call, result, reward_cache,
                       clock, pvars, avars, uvars, hvars>>

\* _has_achievement and _meets_achievement_criteria for achievement k
CheckAchievement(r, user_id) ==
    LET session == Refreshed(sessions.req[r], profiles[RowOf(user_id)])
        achievement_id == AchievementIds[session.k]
        st == View(session)
    IN  /\ sessions.req[r].pc = "check"
        /\ sessions' = [sessions EXCEPT !.req[r] =
               IF /\ ~_has_achievement(st, session.profile.id, achievement_id)
                  /\ _meets_achievement_criteria(st, achievement_id, now)
               THEN [session EXCEPT !.pc = "award"]
               ELSE After(session)]
        /\ UNCHANGED <<gvars, clock, pvars, avars, uvars, hvars>>

\* _award_achievement for achievement k, with its commit
AwardAchievement(r, user_id) ==
    LET session == sessions.req[r]
        achievement_id == AchievementIds[session.k]
        st == _award_achievement(View(session), achievement_id)
        awarded == [session EXCEPT
                       !.profile = st.profile,
                       !.rewards = Append(@, [type |-> "achievement",
                                              name |-> achievement_id,
                                              xp |-> AchievementXP(achievement_id)])]
        row == Flushed(profiles[RowOf(user_id)], awarded)
    IN  /\ session.pc = "award"
        /\ badges' = st.badges
        /\ user_badges' = st.user_badges
        /\ profiles' = [profiles EXCEPT ![RowOf(user_id)] = row]
        /\ sessions' = [sessions EXCEPT !.req[r] =
               After([awarded EXCEPT !.loaded = awarded.profile, !.expired = TRUE])]
        /\ UNCHANGED <<goals, now, call, result, reward_cache, clock, pvars, avars,
                       uvars, hvars>>

\* profile.last_activity = now, the last commit, the reward cache and the return
FinalCommit(r, user_id) ==
    LET session == sessions.req[r]
        row == [Flushed(profiles[RowOf(user_id)], session) EXCEPT
                   !.last_activity = Some(now)]
    IN  /\ session.pc = "commit"
        /\ profiles' = [profiles EXCEPT ![RowOf(user_id)] = row]
        /\ reward_cache' = set_key(reward_cache, <<"rewards", user_id, now>>,
                                   session.rewards, now, Day)
        /\ sessions' = [sessions EXCEPT !.req[r] =
               [session EXCEPT !.pc = "done", !.returned = row, !.expired = TRUE]]
        /\ UNCHANGED <<badges, user_badges, goals, now, call, result, clock, pvars,
                       avars, uvars, hvars>>

BeginRequest == \E r \in Requests, g \in 1..Len(goals) : Begin(r, UserId, g)

CheckStep == \E r \in Requests : CheckAchievement(r, UserId)

AwardStep == \E r \in Requests : AwardAchievement(r, UserId)

CommitStep == \E r \in Requests : FinalCommit(r, UserId)

InitRace ==
    /\ profiles \in StartProfiles \ {<<>>}
    /\ badges = <<>>
    /\ user_badges = <<>>
    /\ goals \in StartGoals
    /\ now = 0
    /\ call = NoCall
    /\ result = NoResult
    /\ reward_cache = {}
    /\ clock = 0
    /\ ret = NoRet
    /\ devices = <<>>
    /\ rule_store = {}
    /\ handled = NotHandled
    /\ DEFAULT_PREFERENCES = DefaultPreferences
    /\ pref_store = {}
    /\ pref_ret = NoPrefCall
    /\ activity = NoActivity
    /\ sessions = [req |-> [r \in Requests |-> Idle], overlapped |-> FALSE,
                   before |-> profiles[1]]

NextRace == BeginRequest \/ CheckStep \/ AwardStep \/ CommitStep

SpecRace == InitRace /\ [][NextRace]_vars

\* =========================================================================
\* The Automation Evaluator (app/api/v1/endpoints/smart_home.py)
\* =========================================================================
\* An ISO time string is kept as the tuple of its fields: "08:00:00" is <<8, 0, 0>>
\* and "06:00" is <<6, 0>>.
DEFAULT_EXPIRY == 3600

\* the instant h:m:s of day d, in seconds
At(d, h, m, sec) == ((d * 24 + h) * 60 + m) * 60 + sec

\* time.fromisoformat: the seconds field is optional and defaults to 0
fromisoformat(fields) ==
    [hour |-> fields[1], minute |-> fields[2],
     second |-> IF Len(fields) >= 3 THEN fields[3] ELSE 0]

\* datetime.now().time(): the time of day of the instant t
TimeOfDay(t) ==
    [hour |-> (t \div 3600) % 24,
     minute |-> (t \div 60) % 60,
     second |-> t % 60]

\* a <= b on datetime.time values: hour, then minute, then second
TimeLE(a, b) ==
    \/ a.hour < b.hour
    \/ a.hour = b.hour /\ a.minute < b.minute
    \/ a.hour = b.hour /\ a.minute = b.minute /\ a.second <= b.second

\* the JSON value null, which json.loads turns into Python's None
JsonNull == "null"

\* a JSON value as a Python value: null is None
Loaded(value) == IF value = JsonNull THEN None ELSE Some(value)

\* dict.get(key): the value, or None
Get(dict, key) == IF key \in DOMAIN dict THEN Loaded(dict[key]) ELSE None

\* the schedule trigger comparing the hour alone
_match_trigger_HourOnly(trigger, event, t) ==
    IF trigger.type = "schedule"
    THEN TimeOfDay(t).hour = fromisoformat(trigger.value).hour
    ELSE IF trigger.type = "device_state"
    THEN /\ event.device_id = trigger.device_id
         /\ Get(event.state, trigger.property) = Loaded(trigger.value)
    ELSE FALSE

\* the device_state trigger matching the events of every device
_match_trigger_AnyDevice(trigger, event, t) ==
    IF trigger.type = "schedule"
    THEN LET current_time == TimeOfDay(t)
             trigger_time == fromisoformat(trigger.value)
         IN  /\ current_time.hour = trigger_time.hour
             /\ current_time.minute = trigger_time.minute
    ELSE IF trigger.type = "device_state"
    THEN Get(event.state, trigger.property) = Loaded(trigger.value)
    ELSE FALSE

_match_trigger(trigger, event, t) ==
    IF trigger.type = "schedule"
    THEN LET current_time == TimeOfDay(t)
             trigger_time == fromisoformat(trigger.value)
         IN  /\ current_time.hour = trigger_time.hour
             /\ current_time.minute = trigger_time.minute
    ELSE IF trigger.type = "device_state"
    THEN /\ event.device_id = trigger.device_id
         /\ Get(event.state, trigger.property) = Loaded(trigger.value)
    ELSE FALSE

\* the time range with its end excluded
_check_condition_EndExcluded(condition, t) ==
    IF condition.type = "time_range"
    THEN /\ TimeLE(fromisoformat(condition.start), TimeOfDay(t))
         /\ ~TimeLE(fromisoformat(condition.end), TimeOfDay(t))
    ELSE TRUE

_check_condition(condition, t) ==
    IF condition.type = "time_range"
    THEN LET current_time == TimeOfDay(t)
             start_time == fromisoformat(condition.start)
             end_time == fromisoformat(condition.end)
         IN  TimeLE(start_time, current_time) /\ TimeLE(current_time, end_time)
    ELSE TRUE

\* one passing condition taken as enough
evaluate_AnyCondition(rule, event, t) ==
    IF ~_match_trigger(rule.trigger, event, t)
    THEN FALSE
    ELSE \/ rule.conditions = <<>>
         \/ \E i \in 1..Len(rule.conditions) : _check_condition(rule.conditions[i], t)

evaluate(rule, event, t) ==
    IF ~_match_trigger(rule.trigger, event, t)
    THEN FALSE
    ELSE \A i \in 1..Len(rule.conditions) : _check_condition(rule.conditions[i], t)

\* --------------------------------------------------- the rule store
RuleKey(user_id, timestamp) == <<"automation_rule", user_id, timestamp>>

\* redis_cache.set_json(key, value) without an expiry: SETEX with the default expiry
set_json(store, key, value, t) == set_key(store, key, value, t, DEFAULT_EXPIRY)

\* a scan that returns the rules of every user
Scan_AnyUser(store, user_id) == store

\* scan_iter(match="automation_rule:{user_id}:*"): the user's entries
Scan(store, user_id) == {e \in store : e.key[2] = user_id}

\* the orders in which a scan can return the entries
ScanOrders(entries) ==
    {order \in [1..Cardinality(entries) -> entries] :
        \A i, j \in 1..Cardinality(entries) : i /= j => order[i] /= order[j]}

UserDeviceIds(user_id) ==
    {devices[i].id : i \in {j \in 1..Len(devices) : devices[j].user_id = user_id}}

\* POST /automation/rules: both devices of the rule must be devices of the user.  The
\* key carries datetime.now().timestamp(), which differs between two requests of one
\* user: a request finds no key of the user with its own timestamp.
create_automation_rule(user_id, rule_data) ==
    /\ Cardinality(rule_store) < MaxRules
    /\ \A e \in rule_store : e.key /= RuleKey(user_id, clock)
    /\ "device_id" \in DOMAIN rule_data.trigger
          => rule_data.trigger.device_id \in UserDeviceIds(user_id)
    /\ rule_data.action.device_id \in UserDeviceIds(user_id)
    /\ rule_store' = set_json(rule_store, RuleKey(user_id, clock), rule_data, clock)
    /\ UNCHANGED <<gvars, clock, pvars, devices, handled, uvars, hvars, rvars>>

\* ---------------------------------------------- process_automation_rules
\* ctx: [user_id, trigger_device, device_state, rules, failing, at]; failing is the set
\* of devices whose webhook POST raises.  acc: [posts, notifications, raised, evaluated].
\* the loop left at the first passing rule whose action device is not found
RECURSIVE ProcessRulesFrom_StopsAtMissingDevice(_, _, _)
ProcessRulesFrom_StopsAtMissingDevice(acc, ctx, i) ==
    IF i > Len(ctx.rules) THEN acc
    ELSE
      LET rule == ctx.rules[i]
          event == [device_id |-> ctx.trigger_device.id, state |-> ctx.device_state]
          should_execute == evaluate(rule, event, ctx.at)
          found == FirstIndex(devices,
                      LAMBDA d : d.id = rule.action.device_id /\ d.user_id = ctx.user_id)
          seen == [acc EXCEPT !.evaluated = i]
      IN  IF ~should_execute
          THEN ProcessRulesFrom_StopsAtMissingDevice(seen, ctx, i + 1)
          ELSE IF found = 0
          THEN seen
          ELSE
            LET action_device == devices[found]
                posted == [seen EXCEPT !.posts = Append(@,
                              [rule |-> i,
                               url |-> action_device.webhook_url,
                               json |-> rule.action.command,
                               secret |-> action_device.webhook_secret])]
            IN  IF action_device.id \in ctx.failing
                THEN [posted EXCEPT !.raised = TRUE]
                ELSE ProcessRulesFrom_StopsAtMissingDevice(
                        [posted EXCEPT !.notifications = Append(@,
                            [rule |-> i,
                             user_id |-> ctx.user_id,
                             type |-> "automation_triggered",
                             trigger_device |-> ctx.trigger_device.name,
                             action_device |-> action_device.name,
                             action |-> rule.action.command])],
                        ctx, i + 1)

RECURSIVE ProcessRulesFrom(_, _, _)
ProcessRulesFrom(acc, ctx, i) ==
    IF i > Len(ctx.rules) THEN acc
    ELSE
      LET rule == ctx.rules[i]
          event == [device_id |-> ctx.trigger_device.id, state |-> ctx.device_state]
          should_execute == evaluate(rule, event, ctx.at)
          found == FirstIndex(devices,
                      LAMBDA d : d.id = rule.action.device_id /\ d.user_id = ctx.user_id)
          seen == [acc EXCEPT !.evaluated = i]
      IN  IF ~should_execute \/ found = 0
          THEN ProcessRulesFrom(seen, ctx, i + 1)
          ELSE
            LET action_device == devices[found]
                posted == [seen EXCEPT !.posts = Append(@,
                              [rule |-> i,
                               url |-> action_device.webhook_url,
                               json |-> rule.action.command,
                               secret |-> action_device.webhook_secret])]
            IN  IF action_device.id \in ctx.failing
                THEN [posted EXCEPT !.raised = TRUE]
                ELSE ProcessRulesFrom(
                        [posted EXCEPT !.notifications = Append(@,
                            [rule |-> i,
                             user_id |-> ctx.user_id,
                             type |-> "automation_triggered",
                             trigger_device |-> ctx.trigger_device.name,
                             action_device |-> action_device.name,
                             action |-> rule.action.command])],
                        ctx, i + 1)

process_automation_rules(ctx) ==
    ProcessRulesFrom([posts |-> <<>>, notifications |-> <<>>, raised |-> FALSE,
                      evaluated |-> 0], ctx, 1)

\* one message on the device websocket of user_id: {device_id, state}
device_websocket(user_id, device_id, state, failing) ==
    LET found == FirstIndex(devices, LAMBDA d : d.id = device_id /\ d.user_id = user_id)
    IN  /\ found /= 0
        /\ devices' = [devices EXCEPT ![found].last_state = Some(state)]
        /\ \E order \in ScanOrders(Scan(Live(rule_store, clock), user_id)) :
              LET ctx == [user_id |-> user_id,
                          trigger_device |-> devices[found],
                          device_state |-> state,
                          rules |-> [i \in DOMAIN order |-> order[i].value],
                          failing |-> failing,
                          at |-> clock]
                  out == process_automation_rules(ctx)
              IN  handled' = [user_id |-> user_id, device_id |-> device_id,
                              state |-> state, at |-> clock, rules |-> ctx.rules,
                              keys |-> [i \in DOMAIN order |-> order[i].key],
                              posts |-> out.posts,
                              notifications |-> out.notifications,
                              raised |-> out.raised, evaluated |-> out.evaluated]
        /\ UNCHANGED <<gvars, clock, pvars, rule_store, uvars, hvars, rvars>>

Users == {1, 2}

\* the state objects the devices report
DeviceStates == { [power |-> "on"], [power |-> "off"], [brightness |-> "on"] }

StartDevices ==
    << [id |-> 1, user_id |-> 1, name |-> "Sensor", webhook_url |-> "http://sensor/webhook",
        webhook_secret |-> "secret-1", last_state |-> None],
       [id |-> 2, user_id |-> 1, name |-> "Light", webhook_url |-> "http://light/webhook",
        webhook_secret |-> "secret-2", last_state |-> None],
       [id |-> 3, user_id |-> 2, name |-> "Plug", webhook_url |-> "http://plug/webhook",
        webhook_secret |-> "secret-3", last_state |-> None] >>

PowerOn(device_id) ==
    [type |-> "device_state", device_id |-> device_id, property |-> "power", value |-> "on"]

\* the state objects sent on the websocket
EventStates == { [power |-> "on"], [power |-> "off"] }

\* the rule_data posted to /automation/rules
RuleInputs ==
    { [trigger |-> PowerOn(1),
       action |-> [device_id |-> 2, command |-> [power |-> "on"]],
       conditions |-> <<>>],
      [trigger |-> PowerOn(1),
       action |-> [device_id |-> 1, command |-> [brightness |-> "low"]],
       conditions |-> <<[type |-> "time_range", start |-> <<8, 0, 30>>, end |-> <<22, 0, 0>>]>>],
      [trigger |-> PowerOn(3),
       action |-> [device_id |-> 3, command |-> [power |-> "off"]],
       conditions |-> <<>>] }

AutoClockPoints == {At(0, 8, 0, 0), At(0, 8, 0, 30), At(0, 9, 0, 15)}

CreateAutomationRule ==
    \E user_id \in Users, rule_data \in RuleInputs : create_automation_rule(user_id, rule_data)

\* the webhooks that are down while one event is handled: none, or the webhook of one
\* device that a stored rule of the user acts on
Outages(user_id) ==
    {{}} \cup {{e.value.action.device_id} : e \in Scan(Live(rule_store, clock), user_id)}

DeviceWebsocket ==
    \E user_id \in Users, device_id \in 1..Len(devices), state \in EventStates :
        \E failing \in Outages(user_id) :
            device_websocket(user_id, device_id, state, failing)

\* the wall clock moves on to the next instant; Redis drops the keys that expired
TickAuto ==
    /\ \E t \in AutoClockPoints :
          /\ t > clock
          /\ \A u \in AutoClockPoints : u > clock => t <= u
          /\ clock' = t
          /\ rule_store' = Live(rule_store, t)
    /\ UNCHANGED <<gvars, pvars, devices, handled, uvars, hvars, rvars>>

InitAuto ==
    /\ profiles = <<>>
    /\ badges = <<>>
    /\ user_badges = <<>>
    /\ goals = <<>>
    /\ now = 0
    /\ call = NoCall
    /\ result = NoResult
    /\ reward_cache = {}
    /\ clock = At(0, 8, 0, 0)
    /\ ret = NoRet
    /\ devices = StartDevices
    /\ rule_store = {}
    /\ handled = NotHandled
    /\ DEFAULT_PREFERENCES = DefaultPreferences
    /\ pref_store = {}
    /\ pref_ret = NoPrefCall
    /\ activity = NoActivity
    /\ sessions = NoSessions

NextAuto == CreateAutomationRule \/ DeviceWebsocket \/ TickAuto

SpecAuto == InitAuto /\ [][NextAuto]_vars

\* ------------------------------- process_automation_rules on any stored rules
\* process_automation_rules takes the rules as it finds them in Redis, whoever wrote
\* them (src/Test/test_smart_home.py hands it a rule through a mocked client): the rules
\* a store can hold include one whose action device does not exist, one whose action
\* device is a device of another user, and one under another user's key that triggers
\* on this user's device.
StoredRules ==
    << [key |-> RuleKey(1, At(0, 7, 30, 1)),
        value |-> [trigger |-> PowerOn(1),
                   action |-> [device_id |-> 9, command |-> [power |-> "on"]],
                   conditions |-> <<>>]],
       [key |-> RuleKey(1, At(0, 7, 30, 2)),
        value |-> [trigger |-> PowerOn(1),
                   action |-> [device_id |-> 3, command |-> [power |-> "off"]],
                   conditions |-> <<>>]],
       [key |-> RuleKey(1, At(0, 7, 30, 3)),
        value |-> [trigger |-> PowerOn(1),
                   action |-> [device_id |-> 2, command |-> [power |-> "on"]],
                   conditions |-> <<>>]],
       [key |-> RuleKey(2, At(0, 7, 30, 4)),
        value |-> [trigger |-> PowerOn(1),
                   action |-> [device_id |-> 3, command |-> [power |-> "on"]],
                   conditions |-> <<>>]] >>

\* the stores of at most MaxRules of these rules, each written with the default expiry
\* at the instant its key names
StartRuleStores ==
    { { [key |-> StoredRules[i].key, value |-> StoredRules[i].value,
         expires_at |-> StoredRules[i].key[3] + DEFAULT_EXPIRY] : i \in chosen }
      : chosen \in {c \in SUBSET (1..Len(StoredRules)) : Cardinality(c) <= MaxRules} }

InitRules ==
    /\ profiles = <<>>
    /\ badges = <<>>
    /\ user_badges = <<>>
    /\ goals = <<>>
    /\ now = 0
    /\ call = NoCall
    /\ result = NoResult
    /\ reward_cache = {}
    /\ clock = At(0, 8, 0, 0)
    /\ ret = NoRet
    /\ devices = StartDevices
    /\ rule_store \in StartRuleStores
    /\ handled = NotHandled
    /\ DEFAULT_PREFERENCES = DefaultPreferences
    /\ pref_store = {}
    /\ pref_ret = NoPrefCall
    /\ activity = NoActivity
    /\ sessions = NoSessions

NextRules == DeviceWebsocket \/ TickAuto

SpecRules == InitRules /\ [][NextRules]_vars

\* ------------------------------------------- the pure functions, applied
\* The instants at which the functions are evaluated: around the 08:00 trigger and
\* the two ends of the 06:00-22:00 range, and on a second day.
ClockPoints ==
    { At(0, 5, 59, 59), At(0, 6, 0, 0), At(0, 7, 59, 0), At(0, 7, 59, 59),
      At(0, 8, 0, 0), At(0, 8, 0, 59), At(0, 8, 1, 0), At(0, 10, 0, 0),
      At(0, 22, 0, 0), At(0, 22, 0, 1), At(0, 23, 0, 0), At(1, 8, 0, 30) }

Events == [device_id : {1, 2}, state : DeviceStates \cup {[power |-> JsonNull]}]

ScheduleTriggers ==
    [type : {"schedule"}, value : {<<8, 0, 0>>, <<8, 0>>, <<7, 59, 0>>, <<8, 1, 30>>}]

DeviceStateTriggers ==
    [type : {"device_state"}, device_id : {1, 2}, property : {"power"},
     value : {"on", JsonNull}]

OtherTriggers == [type : {"sunrise"}]

TimeRanges ==
    [type : {"time_range"},
     start : {<<6, 0, 0>>, <<22, 0, 0>>, <<8, 0>>},
     end : {<<22, 0, 0>>, <<6, 0, 0>>, <<8, 0>>}]

OtherConditions == [type : {"weather"}]

MaxLevelArg == 8
MaxStreakArg == 12

CalculateMultiplier ==
    /\ \E level \in 1..MaxLevelArg, streak_count \in 0..MaxStreakArg :
          LET profile == [NewProfile(1, UserId) EXCEPT
                             !.level = level, !.streak_count = streak_count]
          IN  ret' = [fn |-> "_calculate_multiplier", profile |-> profile,
                      value |-> _calculate_multiplier(profile)]
    /\ UNCHANGED <<gvars, clock, avars, uvars, hvars, rvars>>

MatchTrigger ==
    /\ \E trigger \in ScheduleTriggers \cup DeviceStateTriggers \cup OtherTriggers,
          event \in Events :
          ret' = [fn |-> "_match_trigger", trigger |-> trigger, event |-> event,
                  at |-> clock, value |-> _match_trigger(trigger, event, clock)]
    /\ UNCHANGED <<gvars, clock, avars, uvars, hvars, rvars>>

CheckCondition ==
    /\ \E condition \in TimeRanges \cup OtherConditions :
          ret' = [fn |-> "_check_condition", condition |-> condition,
                  at |-> clock, value |-> _check_condition(condition, clock)]
    /\ UNCHANGED <<gvars, clock, avars, uvars, hvars, rvars>>

\* the condition lists of the rules evaluated: none, one, and two conditions, among a
\* range that holds by day, a range that never holds, and an unrecognized type
ConditionLists ==
    LET pool == { [type |-> "time_range", start |-> <<6, 0, 0>>, end |-> <<22, 0, 0>>],
                  [type |-> "time_range", start |-> <<22, 0, 0>>, end |-> <<6, 0, 0>>],
                  [type |-> "weather"] }
    IN  {<<>>} \cup {<<c>> : c \in pool} \cup {<<c, d>> : c \in pool, d \in pool}

EvaluatedTriggers ==
    { [type |-> "schedule", value |-> <<8, 0, 0>>],
      [type |-> "device_state", device_id |-> 1, property |-> "power", value |-> "on"],
      [type |-> "sunrise"] }

EvaluatedEvents == [device_id : {1, 2}, state : {[power |-> "on"], [power |-> "off"]}]

Evaluate ==
    /\ \E trigger \in EvaluatedTriggers, conditions \in ConditionLists,
          event \in EvaluatedEvents :
          LET rule == [trigger |-> trigger, action |-> [device_id |-> 2],
                       conditions |-> conditions]
          IN  ret' = [fn |-> "evaluate", rule |-> rule, event |-> event,
                      at |-> clock, value |-> evaluate(rule, event, clock)]
    /\ UNCHANGED <<gvars, clock, avars, uvars, hvars, rvars>>

\* the XP values at which the level check is applied: at, just below and between the
\* thresholds of the levels up to MaxLevelArg
LevelCheckXPs ==
    {l * LEVEL_MULTIPLIER + d : l \in 0..MaxLevelArg, d \in {0, 500, LEVEL_MULTIPLIER - 1}}

CheckLevelUp ==
    /\ \E level \in 1..MaxLevelArg, xp \in LevelCheckXPs :
          LET profile == [NewProfile(1, UserId) EXCEPT !.level = level, !.xp = xp]
              st == [profile |-> profile, rewards |-> <<>>, badges |-> <<>>,
                     user_badges |-> <<>>]
          IN  ret' = [fn |-> "_check_level_up", profile |-> profile,
                      value |-> _check_level_up(st)]
    /\ UNCHANGED <<gvars, clock, avars, uvars, hvars, rvars>>

InitPure ==
    /\ profiles = <<>>
    /\ badges = <<>>
    /\ user_badges = <<>>
    /\ goals = <<>>
    /\ now = 0
    /\ call = NoCall
    /\ result = NoResult
    /\ reward_cache = {}
    /\ clock \in ClockPoints
    /\ ret = NoRet
    /\ devices = <<>>
    /\ rule_store = {}
    /\ handled = NotHandled
    /\ DEFAULT_PREFERENCES = DefaultPreferences
    /\ pref_store = {}
    /\ pref_ret = NoPrefCall
    /\ activity = NoActivity
    /\ sessions = NoSessions

NextPure ==
    CalculateMultiplier \/ MatchTrigger \/ CheckCondition \/ CheckLevelUp \/ Evaluate

SpecPure == InitPure /\ [][NextPure]_vars

\* =========================================================================
\* The preference service (app/services/user_preference_service.py)
\* =========================================================================
\* A preferences object is a dict of category dicts.  dict.copy() is shallow: the copy
\* of DEFAULT_PREFERENCES that get_preferences hands out for a user without a stored
\* object holds the category dicts of the class attribute themselves.
MaxPrefHours == 1

PrefKey(user_id) == <<"preferences", user_id>>

\* redis_cache.get_json(key): the stored value, or None
get_json(store, key, t) ==
    IF \E e \in Live(store, t) : e.key = key
    THEN Some((CHOOSE e \in Live(store, t) : e.key = key).value)
    ELSE None

\* dict.update(other)
Update(dict, other) ==
    [k \in DOMAIN dict \cup DOMAIN other |-> IF k \in DOMAIN other THEN other[k] ELSE dict[k]]

\* [value, shared, store]: the object returned, whether its category dicts are those of
\* DEFAULT_PREFERENCES, and the store after the call
get_preferences(user_id) ==
    LET cached == get_json(pref_store, PrefKey(user_id), clock)
    IN  IF cached = None
        THEN [value |-> DEFAULT_PREFERENCES, shared |-> TRUE,
              store |-> set_json(pref_store, PrefKey(user_id), DEFAULT_PREFERENCES, clock)]
        ELSE [value |-> ValueOf(cached), shared |-> FALSE, store |-> pref_store]

\* the categories that update_preferences updates in place, with the dict each receives
Updates(current, preferences, category) ==
    IF category /= None
    THEN [c \in {ValueOf(category)} |-> preferences]
    ELSE [c \in DOMAIN preferences \cap DOMAIN current |-> preferences[c]]

update_preferences(user_id, preferences, category) ==
    LET got == get_preferences(user_id)
        current_preferences == got.value
    IN  IF category /= None /\ ValueOf(category) \notin DOMAIN current_preferences
        THEN /\ pref_store' = got.store
             /\ pref_ret' = [fn |-> "update_preferences", user_id |-> user_id,
                             category |-> category, error |-> "ValueError"]
             /\ UNCHANGED DEFAULT_PREFERENCES
        ELSE LET updates == Updates(current_preferences, preferences, category)
                 InPlace(object) ==
                     [c \in DOMAIN object |->
                         IF c \in DOMAIN updates THEN Update(object[c], updates[c])
                         ELSE object[c]]
                 updated == InPlace(current_preferences)
             IN  /\ DEFAULT_PREFERENCES' =
                        IF got.shared THEN InPlace(DEFAULT_PREFERENCES)
                        ELSE DEFAULT_PREFERENCES
                 /\ pref_store' = set_json(got.store, PrefKey(user_id), updated, clock)
                 /\ pref_ret' = [fn |-> "update_preferences", user_id |-> user_id,
                                 category |-> category, value |-> updated]

reset_preferences(user_id, category) ==
    IF category /= None
    THEN IF ValueOf(category) \notin DOMAIN DEFAULT_PREFERENCES
         THEN /\ pref_ret' = [fn |-> "reset_preferences", user_id |-> user_id,
                              category |-> category, error |-> "ValueError"]
              /\ UNCHANGED <<DEFAULT_PREFERENCES, pref_store>>
         ELSE LET got == get_preferences(user_id)
                  current_preferences ==
                      [got.value EXCEPT
                          ![ValueOf(category)] = DEFAULT_PREFERENCES[ValueOf(category)]]
              IN  /\ pref_store' = set_json(got.store, PrefKey(user_id),
                                            current_preferences, clock)
                  /\ pref_ret' = [fn |-> "reset_preferences", user_id |-> user_id,
                                  category |-> category, value |-> current_preferences]
                  /\ UNCHANGED DEFAULT_PREFERENCES
    ELSE LET default_preferences == DEFAULT_PREFERENCES
         IN  /\ pref_store' = set_json(pref_store, PrefKey(user_id),
                                       default_preferences, clock)
             /\ pref_ret' = [fn |-> "reset_preferences", user_id |-> user_id,
                             category |-> category, value |-> default_preferences]
             /\ UNCHANGED DEFAULT_PREFERENCES

\* the updates the repository's tests send, and one for a category that does not exist
PreferenceUpdates ==
    { [preferences |-> [notifications |-> [email |-> FALSE]], category |-> None],
      [preferences |-> [daily_step_goal |-> 12000], category |-> Some("health")],
      [preferences |-> [theme |-> "dark"], category |-> Some("appearance")] }

ResetCategories == {None, Some("health"), Some("notifications"), Some("appearance")}

UpdatePreferences ==
    /\ \E user_id \in Users, u \in PreferenceUpdates :
          update_preferences(user_id, u.preferences, u.category)
    /\ UNCHANGED <<gvars, clock, pvars, avars, hvars, rvars>>

ResetPreferences ==
    /\ \E user_id \in Users, category \in ResetCategories :
          reset_preferences(user_id, category)
    /\ UNCHANGED <<gvars, clock, pvars, avars, hvars, rvars>>

\* an hour passes; Redis drops the keys that expired
TickPrefs ==
    /\ clock < MaxPrefHours * DEFAULT_EXPIRY
    /\ clock' = clock + DEFAULT_EXPIRY
    /\ pref_store' = Live(pref_store, clock + DEFAULT_EXPIRY)
    /\ UNCHANGED <<gvars, pvars, avars, DEFAULT_PREFERENCES, pref_ret, hvars, rvars>>

InitPrefs ==
    /\ profiles = <<>>
    /\ badges = <<>>
    /\ user_badges = <<>>
    /\ goals = <<>>
    /\ now = 0
    /\ call = NoCall
    /\ result = NoResult
    /\ reward_cache = {}
    /\ clock = 0
    /\ ret = NoRet
    /\ devices = <<>>
    /\ rule_store = {}
    /\ handled = NotHandled
    /\ DEFAULT_PREFERENCES = DefaultPreferences
    /\ pref_store = {}
    /\ pref_ret = NoPrefCall
    /\ activity = NoActivity
    /\ sessions = NoSessions

NextPrefs == UpdatePreferences \/ ResetPreferences \/ TickPrefs

SpecPrefs == InitPrefs /\ [][NextPrefs]_vars

\* ======================================================= the claims
\* the last call of process_progress, if it returned
Called == call.user_id /= 0 /\ call.committed

Before == call.before

RewardsOfType(type) == SelectSeq(result.rewards, LAMBDA r : r.type = type)

AchievementRewards(name) ==
    SelectSeq(result.rewards, LAMBDA r : r.type = "achievement" /\ r.name = name)

RewardXP(r) ==
    IF r.type = "xp" THEN r.amount ELSE IF r.type = "level_up" THEN 0 ELSE r.xp

RECURSIVE SumXP(_)
SumXP(rewards) ==
    IF rewards = <<>> THEN 0 ELSE RewardXP(Head(rewards)) + SumXP(Tail(rewards))

\* the UserBadge rows of the profile for the badge of this name
UserBadgeRows(ubs, profile_id, name) ==
    {i \in 1..Len(ubs) :
        /\ ubs[i].user_profile_id = profile_id
        /\ ubs[i].badge_id \in 1..Len(badges)
        /\ badges[ubs[i].badge_id].name = name}

LastActivityStale ==
    \/ Before.last_activity = None
    \/ call.at - ValueOf(Before.last_activity) > Day

LastActivityFresh ==
    /\ Before.last_activity /= None
    /\ call.at - ValueOf(Before.last_activity) <= Day

\* C1: after every process_progress call the returned profile has xp < level * 1000.
C1_XpBelowLevelThreshold ==
    Called => result.profile.xp < result.profile.level * LEVEL_MULTIPLIER

\* C2: consistency_king is unlocked at most once: there is never more than one UserBadge
\* row for the (profile, badge) pair, and a call made when the row exists returns no
\* achievement reward of that name, adds no row and adds no XP beyond its rewards.
C2_ConsistencyKingOnce ==
    /\ \A p \in 1..Len(profiles) :
          Cardinality(UserBadgeRows(user_badges, p, "consistency_king")) <= 1
    /\ (Called /\ UserBadgeRows(call.before_badges, Before.id, "consistency_king") /= {})
          => /\ AchievementRewards("consistency_king") = <<>>
             /\ UserBadgeRows(user_badges, Before.id, "consistency_king")
                  = UserBadgeRows(call.before_badges, Before.id, "consistency_king")
             /\ result.profile.xp = Before.xp + SumXP(result.rewards)

\* C2 witness: a call made with the badge already held and the streak at 7 or more
C2_Witness ==
    /\ Called
    /\ UserBadgeRows(call.before_badges, Before.id, "consistency_king") /= {}
    /\ result.profile.streak >= 7

\* C3: a call that finds last_activity unset or more than 1 day old leaves
\* streak_count at exactly 1 and returns no streak reward.
C3_StaleOrUnsetResetsStreak ==
    (Called /\ LastActivityStale)
        => /\ result.profile.streak = 1
           /\ RewardsOfType("streak") = <<>>

\* C4: a call that finds last_activity set and at most 1 day old raises streak_count by
\* exactly 1, adds 50 XP and returns exactly one streak reward, with xp 50 and the new count.
C4_FreshActivityExtendsStreak ==
    (Called /\ LastActivityFresh)
        => /\ result.profile.streak = Before.streak_count + 1
           /\ RewardsOfType("streak")
                = <<[type |-> "streak", count |-> Before.streak_count + 1,
                     xp |-> XP_STREAK_MAINTAINED]>>
           /\ result.profile.xp = Before.xp + SumXP(result.rewards)
           /\ result.rewards[2].type = "streak"

\* C4 witness: a call exactly one day after the last activity
C4_Witness ==
    /\ Called
    /\ Before.last_activity /= None
    /\ call.at - ValueOf(Before.last_activity) = Day
    /\ result.profile.streak = Before.streak_count + 1

ScenarioA ==
    /\ Called
    /\ Before.level = 1
    /\ Before.xp = 990
    /\ Before.streak_count = 0
    /\ Before.last_activity = None
    /\ call.goal.completed
    /\ call.goal.category = "health"

C9_MultiplierBounds ==
    ret.fn = "_calculate_multiplier"
        => LET level == ret.profile.level
               streak == ret.profile.streak_count
               level_part == 5 * (level - 1)
           IN  /\ (level = 1 /\ streak = 0) => ret.value = 100
               /\ level > 1 => ret.value > 100
               /\ streak >= 5 => ret.value >= 150
               /\ ret.value - 100 - level_part <= 100
               /\ streak <= 10 => ret.value = 100 + level_part + 10 * streak
               /\ streak > 10 => ret.value = 200 + level_part

\* C9 witness: a multiplier computed for a level above 1 and a streak beyond the cap
C9_Witness ==
    /\ ret.fn = "_calculate_multiplier"
    /\ ret.profile.level > 1
    /\ ret.profile.streak_count > 10
    /\ ret.value = 200 + 5 * (ret.profile.level - 1)

\* ------------------------------------------------------------ C7
\* the minute of the day of an instant
MinuteOfDay(t) == (t % 86400) \div 60

\* C7: a schedule trigger matches iff the hour and minute of the current time equal the
\* hour and minute of the configured time, whatever the event; the trigger for 08:00:00
\* matches at 08:00 and not at 07:59 or 08:01.
C7_ScheduleTriggerExactMinute ==
    (ret.fn = "_match_trigger" /\ ret.trigger.type = "schedule")
        => /\ ret.value <=> (MinuteOfDay(ret.at)
                               = ret.trigger.value[1] * 60 + ret.trigger.value[2])
           /\ ret.trigger.value = <<8, 0, 0>>
                => /\ MinuteOfDay(ret.at) = 480 => ret.value
                   /\ MinuteOfDay(ret.at) \in {479, 481} => ~ret.value

\* C7 witness: the 08:00:00 trigger evaluated in the minute 08:00, and matching
C7_Witness ==
    /\ ret.fn = "_match_trigger"
    /\ ret.trigger = [type |-> "schedule", value |-> <<8, 0, 0>>]
    /\ ret.at = At(0, 8, 0, 59)
    /\ ret.value

\* ------------------------------------------------------------ C8
SecondOfDay(t) == t % 86400

FieldSeconds(fields) ==
    fields[1] * 3600 + fields[2] * 60 + (IF Len(fields) >= 3 THEN fields[3] ELSE 0)

\* C8: a time_range condition passes exactly when start <= current time <= end, both
\* ends included and without wraparound: 06:00-22:00 fails at 23:00 and passes at 10:00,
\* and a range with start > end passes at no time.
C8_TimeRangeInclusive ==
    (ret.fn = "_check_condition" /\ ret.condition.type = "time_range")
        => LET start == FieldSeconds(ret.condition.start)
               end == FieldSeconds(ret.condition.end)
               current == SecondOfDay(ret.at)
           IN  /\ ret.value <=> (start <= current /\ current <= end)
               /\ start > end => ~ret.value
               /\ (start = 21600 /\ end = 79200)
                    => /\ current = 82800 => ~ret.value
                       /\ current = 36000 => ret.value

\* C8 witness: the range 06:00-22:00 checked at exactly 22:00:00, and passing
C8_Witness ==
    /\ ret.fn = "_check_condition"
    /\ ret.condition = [type |-> "time_range", start |-> <<6, 0, 0>>, end |-> <<22, 0, 0>>]
    /\ ret.at = At(0, 22, 0, 0)
    /\ ret.value

\* ------------------------------------------------------- C5, C6
Handled == handled.user_id /= 0

HandledEvent == [device_id |-> handled.device_id, state |-> handled.state]

\* rule i of the handled batch passes its trigger and all its conditions
Passes(i) == evaluate(handled.rules[i], HandledEvent, handled.at)

\* the action device of rule i among the devices of the user, or 0
ActionDevice(i) ==
    FirstIndex(devices,
        LAMBDA d : d.id = handled.rules[i].action.device_id /\ d.user_id = handled.user_id)

PostsFor(i) == SelectSeq(handled.posts, LAMBDA p : p.rule = i)

\* C5: process_automation_rules never raises on a webhook failure: every rule of the
\* batch is evaluated, and every rule that passes and has its action device gets its POST.
C5_WebhookFailureIsolated ==
    Handled
        => /\ ~handled.raised
           /\ handled.evaluated = Len(handled.rules)
           /\ \A i \in 1..Len(handled.rules) :
                 (Passes(i) /\ ActionDevice(i) /= 0) => PostsFor(i) /= <<>>

\* C6: a rule that passes and whose action device exists gets exactly one POST, to the
\* device's webhook_url, with the rule's command as body and the device's secret as
\* X-Device-Secret; a rule that does not pass gets none.
C6_OnePostPerPassingRule ==
    Handled
        => \A i \in 1..Len(handled.rules) :
              /\ (Passes(i) /\ ActionDevice(i) /= 0)
                    => PostsFor(i)
                         = <<[rule |-> i,
                              url |-> devices[ActionDevice(i)].webhook_url,
                              json |-> handled.rules[i].action.command,
                              secret |-> devices[ActionDevice(i)].webhook_secret]>>
              /\ ~Passes(i) => PostsFor(i) = <<>>

\* ------------------------------------------------------------ C11
HadNoBadge(name) == UserBadgeRows(call.before_badges, Before.id, name) = {}

StreakReachesSeven ==
    /\ Called
    /\ Before.streak_count = 6
    /\ LastActivityFresh
    /\ HadNoBadge("consistency_king")
    /\ call.goal.completed

\* C11: achievements are evaluated on the profile as updated by the same call: from
\* streak_count 6, a last_activity within 1 day and no consistency_king badge, a call
\* with a completed goal raises the streak to 7 and returns the consistency_king
\* achievement reward in that same call.
C11_AchievementInSameCall ==
    StreakReachesSeven
        => /\ result.profile.streak = 7
           /\ Len(AchievementRewards("consistency_king")) = 1
           /\ UserBadgeRows(user_badges, Before.id, "consistency_king") /= {}

\* C11 witness: the call that takes the streak from 6 to 7 and returns the reward
C11_Witness ==
    /\ StreakReachesSeven
    /\ result.profile.streak = 7
    /\ AchievementRewards("consistency_king") /= <<>>

\* ------------------------------------------------------------ C12
ProfilesOf(user_id) == {i \in 1..Len(profiles) : profiles[i].user_id = user_id}

NotificationsFor(i) == SelectSeq(handled.notifications, LAMBDA n : n.rule = i)

\* the device whose state the handled event reports
HandledDevice ==
    devices[FirstIndex(devices,
                LAMBDA d : d.id = handled.device_id /\ d.user_id = handled.user_id)]

\* C13: every rule that passes and whose action device is found gets exactly one
\* automation_triggered notification naming the trigger and the action device,
\* whether its webhook POST succeeded or failed.
C13_NotificationPerFiredRule ==
    Handled
        => \A i \in 1..Len(handled.rules) :
              (Passes(i) /\ ActionDevice(i) /= 0)
                 => NotificationsFor(i)
                      = <<[rule |-> i,
                           user_id |-> handled.user_id,
                           type |-> "automation_triggered",
                           trigger_device |-> HandledDevice.name,
                           action_device |-> devices[ActionDevice(i)].name,
                           action |-> handled.rules[i].action.command]>>

\* ------------------------------------------------------------ C14
\* C14: a stored rule has no TTL and no deletion path: every rule in the store is still
\* returned, with its key and value, by the scan of its user's rules at any later time.
C14_RulesNeverExpire ==
    [][\A e \in rule_store :
          \E f \in Scan(Live(rule_store', clock'), e.key[2]) :
              f.key = e.key /\ f.value = e.value]_vars

\* ------------------------------------------------------------ C15
\* the step of the algorithm that emits a reward of this type
StepOf(r) ==
    CASE r.type = "xp" -> 1
      [] r.type = "streak" -> 2
      [] r.type = "completion" -> 3
      [] r.type \in {"health_milestone", "finance_milestone"} -> 3
      [] r.type = "level_up" -> 4
      [] r.type = "achievement" -> 5

\* the XP of the rewards of the steps before the level check
XpBeforeLevelCheck ==
    Before.xp + SumXP(SelectSeq(result.rewards, LAMBDA r : StepOf(r) <= 3))

\* C15: the returned rewards are in step order: the xp reward first, then the streak
\* reward, then the completion reward followed by the category milestone, then the
\* level_up rewards in increasing new_level, then the achievement rewards; the level
\* reached is the one the XP of the base, streak and completion steps calls for.
C15_RewardsInStepOrder ==
    Called
        => LET rewards == result.rewards
               n == Len(rewards)
               ups == RewardsOfType("level_up")
               milestones == RewardsOfType("health_milestone")
                                \o RewardsOfType("finance_milestone")
           IN  /\ n >= 1 /\ rewards[1].type = "xp"
               /\ Len(RewardsOfType("xp")) = 1
               /\ Len(RewardsOfType("streak")) <= 1
               /\ Len(RewardsOfType("completion")) <= 1
               /\ Len(milestones) <= 1
               /\ \A i \in 1..(n - 1) : StepOf(rewards[i]) <= StepOf(rewards[i + 1])
               /\ \A i \in 2..n :
                     rewards[i].type \in {"health_milestone", "finance_milestone"}
                        => rewards[i - 1].type = "completion"
               /\ \A i \in 1..Len(ups) : ups[i].new_level = Before.level + i
               /\ result.profile.level = Before.level + Len(ups)
               /\ XpBeforeLevelCheck < result.profile.level * LEVEL_MULTIPLIER
               /\ Len(ups) > 0
                     => XpBeforeLevelCheck >= (result.profile.level - 1) * LEVEL_MULTIPLIER

\* C15 witness: one call that returned a reward of every step
C15_Witness ==
    /\ Called
    /\ RewardsOfType("streak") /= <<>>
    /\ RewardsOfType("completion") /= <<>>
    /\ RewardsOfType("health_milestone") /= <<>>
    /\ RewardsOfType("level_up") /= <<>>
    /\ RewardsOfType("achievement") /= <<>>

\* ------------------------------------------------------------ C16
\* C16: reset_preferences restores the defaults: after any updates by any user,
\* reset_preferences(user_id) returns and stores the original default preferences, and
\* reset_preferences(user_id, category) returns the category with its original values.
C16_ResetRestoresDefaults ==
    (pref_ret.fn = "reset_preferences" /\ "value" \in DOMAIN pref_ret)
        => IF pref_ret.category = None
           THEN /\ pref_ret.value = DefaultPreferences
                /\ get_json(pref_store, PrefKey(pref_ret.user_id), clock)
                      = Some(DefaultPreferences)
           ELSE pref_ret.value[ValueOf(pref_ret.category)]
                  = DefaultPreferences[ValueOf(pref_ret.category)]

\* ------------------------------------------------------------ C17
\* the last call of process_progress, if its final commit raised
CommitFailed == call.user_id /= 0 /\ ~call.committed

\* C17: when the commit that ends process_progress fails, the error reaches the caller
\* and nothing the call computed is persisted: the profile row keeps its XP, level and
\* streak, and no Badge row, UserBadge row or cached reward record has been added.
C17_FailedCommitPersistsNothing ==
    CommitFailed
        => /\ "error" \in DOMAIN result
           /\ profiles[Before.id] = Before
           /\ badges = call.before_all_badges
           /\ user_badges = call.before_badges
           /\ reward_cache = call.before_cache

\* ------------------------------------------------------------ C18
\* C18: a call raises the profile's xp by exactly the sum of the XP amounts of the
\* rewards it returns, which is at least 10; xp is never negative and no call, returned
\* or failed, leaves the profile with less xp than it found.
C18_XpGrowsByRewardSum ==
    /\ \A p \in 1..Len(profiles) : profiles[p].xp >= 0
    /\ Called
          => /\ result.profile.xp = Before.xp + SumXP(result.rewards)
             /\ SumXP(result.rewards) >= XP_PROGRESS_LOGGED
             /\ profiles[Before.id].xp = result.profile.xp
    /\ CommitFailed => profiles[Before.id].xp >= Before.xp

\* C18 witness: a call whose XP is made of base, streak, completion, milestone and
\* achievement XP
C18_Witness ==
    /\ Called
    /\ RewardsOfType("streak") /= <<>>
    /\ RewardsOfType("finance_milestone") /= <<>>
    /\ RewardsOfType("achievement") /= <<>>
    /\ result.profile.xp = Before.xp + SumXP(result.rewards)

\* ------------------------------------------------------------ C19
\* the product base XP x multiplier in hundredths, for the level and streak_count the
\* profile had when the call began
BaseProduct ==
    XP_PROGRESS_LOGGED
        * (100 + 5 * (Before.level - 1) + Min(10 * Before.streak_count, 100))

\* C19 as stated: the amount of the xp reward is the product rounded to the nearest
\* integer.
C19_BaseXpRounded ==
    Called => result.rewards[1].amount = (BaseProduct + 50) \div 100

\* C19, amended: step 1 adds the product of the base XP (10) and the multiplier
\* truncated to an integer, the multiplier taken from the level and streak_count the
\* profile had before this call's streak update and level-up; the amount of the xp
\* reward is the value added.
C19_BaseXpTruncated ==
    Called
        => /\ result.rewards[1].type = "xp"
           /\ result.rewards[1].amount = BaseProduct \div 100
           /\ result.profile.xp
                 = Before.xp + result.rewards[1].amount + SumXP(Tail(result.rewards))

\* C19 witness: a call at level 2 and streak 1 (a product of 11.5) that also updates
\* the streak
C19_Witness ==
    /\ Called
    /\ Before.level = 2
    /\ Before.streak_count = 1
    /\ result.profile.streak = 2
    /\ result.rewards[1].amount = 11

\* ------------------------------------------------------------ C20
\* C20: the level check is a loop: from level L0 it ends at the smallest level L >= L0
\* with xp < L * 1000, returns L - L0 level_up rewards with new_level L0+1, ..., L in
\* that order, never lowers the level and leaves xp as it was.
C20_LevelUpLoop ==
    ret.fn = "_check_level_up"
        => LET L0 == ret.profile.level
               xp == ret.profile.xp
               L == ret.value.profile.level
               ups == ret.value.rewards
           IN  /\ L >= L0
               /\ xp < L * LEVEL_MULTIPLIER
               /\ L > L0 => xp >= (L - 1) * LEVEL_MULTIPLIER
               /\ Len(ups) = L - L0
               /\ \A i \in 1..Len(ups) :
                     ups[i] = [type |-> "level_up", new_level |-> L0 + i]
               /\ ret.value.profile = [ret.profile EXCEPT !.level = L]

\* C20 witness: one check that raised the level by more than one
C20_Witness ==
    /\ ret.fn = "_check_level_up"
    /\ Len(ret.value.rewards) >= 2
    /\ ret.value.profile.level = ret.profile.level + Len(ret.value.rewards)

\* ------------------------------------------------------------ C21
\* C21: achievement XP is added to xp, but the level check is not run again: the level
\* returned is the level that the XP of steps 1 to 3 calls for, and no level_up reward
\* follows an achievement reward.
C21_NoLevelCheckAfterAchievements ==
    Called
        => LET rewards == result.rewards
               level == result.profile.level
           IN  /\ \A i, j \in 1..Len(rewards) :
                     (i < j /\ rewards[i].type = "achievement")
                        => rewards[j].type /= "level_up"
               /\ result.profile.xp
                     = XpBeforeLevelCheck + SumXP(RewardsOfType("achievement"))
               /\ level >= Before.level
               /\ XpBeforeLevelCheck < level * LEVEL_MULTIPLIER
               /\ level > Before.level
                     => XpBeforeLevelCheck >= (level - 1) * LEVEL_MULTIPLIER

\* C21 witness: a call whose achievement XP takes xp to the threshold of the returned
\* level or beyond
C21_Witness ==
    /\ Called
    /\ RewardsOfType("achievement") /= <<>>
    /\ XpBeforeLevelCheck < result.profile.level * LEVEL_MULTIPLIER
    /\ result.profile.xp >= result.profile.level * LEVEL_MULTIPLIER

\* ------------------------------------------------------------ C22
Milestones == RewardsOfType("health_milestone") \o RewardsOfType("finance_milestone")

\* C22: a completion reward of 100 XP is returned iff goal.completed; a milestone of
\* 75 XP comes only with a completion reward and at most once: health_milestone iff the
\* completed goal's category is health, finance_milestone iff it is finance, none for
\* any other category.
C22_CompletionAndMilestone ==
    Called
        => /\ RewardsOfType("completion")
                 = (IF call.goal.completed
                    THEN <<[type |-> "completion", xp |-> 100]>> ELSE <<>>)
           /\ RewardsOfType("health_milestone")
                 = (IF call.goal.completed /\ call.goal.category = "health"
                    THEN <<[type |-> "health_milestone", xp |-> 75]>> ELSE <<>>)
           /\ RewardsOfType("finance_milestone")
                 = (IF call.goal.completed /\ call.goal.category = "finance"
                    THEN <<[type |-> "finance_milestone", xp |-> 75]>> ELSE <<>>)
           /\ Len(Milestones) <= Len(RewardsOfType("completion"))
           /\ result.profile.xp - Before.xp
                 = SumXP(SelectSeq(result.rewards,
                           LAMBDA r : r.type \notin {"completion", "health_milestone",
                                                     "finance_milestone"}))
                   + (IF call.goal.completed THEN 100 ELSE 0)
                   + 75 * Len(Milestones)

\* C22 witness: a completed goal of a category without a milestone
C22_Witness ==
    /\ Called
    /\ call.goal.completed
    /\ call.goal.category = "personal"
    /\ RewardsOfType("completion") /= <<>>
    /\ Milestones = <<>>

\* ------------------------------------------------------------ C23
Evaluated == ret /= NoRet /\ ret.fn = "evaluate"

\* the rule's trigger matches the event of the evaluation
TriggerMatches == _match_trigger(ret.rule.trigger, ret.event, ret.at)

\* condition i of the evaluated rule fails: it is a time range that does not hold
ConditionFails(i) ==
    /\ ret.rule.conditions[i].type = "time_range"
    /\ ~_check_condition(ret.rule.conditions[i], ret.at)

\* C23: evaluate returns true iff the trigger matches the event and every condition
\* passes; one failing condition makes it false, a condition of an unrecognized type
\* passes, without conditions the trigger alone decides, a trigger of an unrecognized
\* type never matches; evaluate changes no state.
C23_Evaluate ==
    [][(ret' /= NoRet /\ ret'.fn = "evaluate")
          => /\ ret'.value
                  = (/\ TriggerMatches'
                     /\ \A i \in 1..Len(ret'.rule.conditions) : ~ConditionFails(i)')
             /\ ret'.rule.trigger.type \notin {"schedule", "device_state"}
                  => ~ret'.value
             /\ ret'.rule.conditions = <<>> => ret'.value = TriggerMatches'
             /\ UNCHANGED <<gvars, clock, avars, uvars, hvars, rvars>>]_vars

\* C23 witness: a rule with an unrecognized condition next to a passing one evaluates
\* to true
C23_Witness ==
    /\ Evaluated
    /\ ret.value
    /\ Len(ret.rule.conditions) = 2
    /\ \E i \in 1..2 : ret.rule.conditions[i].type = "weather"
    /\ \E i \in 1..2 : ret.rule.conditions[i].type = "time_range"

\* ------------------------------------------------------------ C24
MatchedDeviceState ==
    /\ ret /= NoRet
    /\ ret.fn = "_match_trigger"
    /\ ret.trigger.type = "device_state"

\* the event's state holds the trigger's property
HasProperty == ret.trigger.property \in DOMAIN ret.event.state

\* C24: a device_state trigger matches iff the event's device_id equals the trigger's
\* and the state's value for the trigger's property equals the trigger's value, a
\* state lacking the property counting as holding null: an event of another device or
\* a state with a different value does not match, and a state lacking the property
\* matches only a trigger whose value is null.
C24_DeviceStateMatch ==
    MatchedDeviceState
        => ret.value
             = (/\ ret.event.device_id = ret.trigger.device_id
                /\ IF HasProperty
                   THEN ret.event.state[ret.trigger.property] = ret.trigger.value
                   ELSE ret.trigger.value = JsonNull)

\* C24 witness: a state lacking the property matches a trigger on null
C24_Witness ==
    /\ MatchedDeviceState
    /\ ~HasProperty
    /\ ret.event.device_id = ret.trigger.device_id
    /\ ret.value

\* C24 as stated: a state lacking the property never matches
C24_MissingPropertyNeverMatches ==
    MatchedDeviceState
        => ret.value
             = (/\ ret.event.device_id = ret.trigger.device_id
                /\ HasProperty
                /\ ret.event.state[ret.trigger.property] = ret.trigger.value)

\* ------------------------------------------------------------ C25
\* C25: a rule that passes but whose action device is not found for
\* (action.device_id, user_id) gets no POST and no notification, and the loop goes on
\* to the rules after it.
C25_MissingActionDeviceSkipped ==
    Handled
        => \A i \in 1..Len(handled.rules) :
              (Passes(i) /\ ActionDevice(i) = 0)
                 => /\ PostsFor(i) = <<>>
                    /\ NotificationsFor(i) = <<>>
                    /\ (handled.evaluated >= i /\ i < Len(handled.rules))
                          => handled.evaluated > i

\* C25 witness: the first rule passes without an action device, and the rule after
\* it is evaluated and fires
C25_Witness ==
    /\ Handled
    /\ Len(handled.rules) = 2
    /\ Passes(1)
    /\ \A d \in 1..Len(devices) : devices[d].id /= handled.rules[1].action.device_id
    /\ PostsFor(1) = <<>>
    /\ handled.evaluated = 2
    /\ PostsFor(2) /= <<>>

\* ------------------------------------------------------------ C29
\* the devices of the user whose event was handled
OwnDevices == {d \in 1..Len(devices) : devices[d].user_id = handled.user_id}

\* rule i acts on a device that another user owns
ActsOnForeignDevice(i) ==
    \E d \in 1..Len(devices) :
        /\ devices[d].id = handled.rules[i].action.device_id
        /\ devices[d].user_id /= handled.user_id

\* C29: an event of user u has only the rules under u's key prefix evaluated, and its
\* webhooks go only to devices of u: no POST and no notification is produced for another
\* user, also when a rule of u names another user's device as its action device.
C29_RulesAndWebhooksOfUserOnly ==
    Handled
        => /\ \A k \in 1..Len(handled.keys) :
                 /\ handled.keys[k][1] = "automation_rule"
                 /\ handled.keys[k][2] = handled.user_id
           /\ \A p \in 1..Len(handled.posts) :
                 \E d \in OwnDevices :
                     /\ devices[d].webhook_url = handled.posts[p].url
                     /\ devices[d].webhook_secret = handled.posts[p].secret
           /\ \A n \in 1..Len(handled.notifications) :
                 handled.notifications[n].user_id = handled.user_id
           /\ \A i \in 1..Len(handled.rules) :
                 ActsOnForeignDevice(i)
                    => PostsFor(i) = <<>> /\ NotificationsFor(i) = <<>>

\* C29 witness: a rule of the user that passes and names another user's device, while
\* the store holds a rule of another user that triggers on the same event
C29_Witness ==
    /\ Handled
    /\ \E i \in 1..Len(handled.rules) :
          Passes(i) /\ ActsOnForeignDevice(i) /\ PostsFor(i) = <<>>
    /\ \E e \in rule_store :
          /\ e.key[2] /= handled.user_id
          /\ evaluate(e.value, HandledEvent, handled.at)

\* ------------------------------------------------------------ C27
\* the number of consecutive days, ending with day d, on which a call was made
ConsecutiveDays(days, d) == Cardinality({k \in days : \A j \in k..d : j \in days})

\* the last call found last_activity more than a day old
CalledAfterGap ==
    /\ Called
    /\ Before.last_activity /= None
    /\ call.at - ValueOf(Before.last_activity) > Day

LoggedOn(g) == now' = now /\ call'.goal_id = g

\* C28: a log with a value at or above the target marks the goal completed, and a
\* completed goal stays completed under every later log on it, also with a value below
\* the target: each such log that returns awards the 100 XP completion reward again,
\* and the milestone of the goal's category.
C28_CompletedStaysCompleted ==
    [][\A g \in 1..Len(goals) :
          /\ goals[g].completed => goals'[g].completed
          /\ (LoggedOn(g) /\ goals'[g].current_value >= goals'[g].target_value)
                => goals'[g].completed
          /\ (LoggedOn(g) /\ goals[g].completed /\ call'.committed)
                => /\ call'.goal.completed
                   /\ \E r \in 1..Len(result'.rewards) :
                         result'.rewards[r] = [type |-> "completion", xp |-> 100]
                   /\ goals[g].category = "health"
                         => \E r \in 1..Len(result'.rewards) :
                               result'.rewards[r] = [type |-> "health_milestone", xp |-> 75]
                   /\ goals[g].category = "finance"
                         => \E r \in 1..Len(result'.rewards) :
                               result'.rewards[r] = [type |-> "finance_milestone", xp |-> 75]
                   /\ result'.profile.xp >= call'.before.xp + 100]_vars

\* C28 witness: a log below the target on the finance goal, which only an earlier log
\* can have completed, with its completion reward and milestone
C28_Witness ==
    /\ Called
    /\ activity.calls >= 2
    /\ call.goal.category = "finance"
    /\ call.goal.completed
    /\ call.goal.current_value < call.goal.target_value
    /\ RewardsOfType("completion") /= <<>>
    /\ RewardsOfType("finance_milestone") /= <<>>

\* ------------------------------------------------------------ C26
Done(r) == sessions.req[r].pc = "done"

InProgress(r) == sessions.req[r].pc \notin {"idle", "done"}

\* the XP that the calls which returned have awarded
AwardedXP(r) == IF Done(r) THEN SumXP(sessions.req[r].rewards) ELSE 0

TotalAwardedXP == AwardedXP(1) + AwardedXP(2)

PersistedXP == profiles[RowOf(UserId)].xp

\* C26: when the calls for one user run one after the other, no XP is lost: the xp
\* persisted is the initial xp plus the XP of the rewards of every call that returned.
\* (The race of calls that overlap is the witness.)
C26_SerializedCallsLoseNoXP ==
    (sessions /= NoSessions /\ ~sessions.overlapped /\ \A r \in Requests : ~InProgress(r))
        => PersistedXP = sessions.before.xp + TotalAwardedXP

\* C26 witness: two calls that overlapped have returned, and the xp persisted is less
\* than the initial xp plus the XP awarded by both
C26_Witness ==
    /\ sessions /= NoSessions
    /\ sessions.overlapped
    /\ \A r \in Requests : Done(r)
    /\ PersistedXP < sessions.before.xp + TotalAwardedXP

\* ------------------------------------------------------------ C30
\* call r returned with the achievement among its rewards
Awarded(r, name) ==
    /\ Done(r)
    /\ \E i \in 1..Len(sessions.req[r].rewards) :
          /\ sessions.req[r].rewards[i].type = "achievement"
          /\ sessions.req[r].rewards[i].name = name

AchievementNames == {AchievementIds[i] : i \in 1..Len(AchievementIds)}

BadgeRowsOf(name) == UserBadgeRows(user_badges, profiles[RowOf(UserId)].id, name)

\* C30: when both calls pass the existence check before either has awarded, both award
\* the achievement: two UserBadge rows for the one (profile, badge) pair are left and
\* both calls return the achievement reward, while the xp persisted holds the
\* achievement XP once, the later commit overwriting the earlier one; when the calls
\* run one after the other at most one row per pair exists.
C30_CheckThenAwardNotAtomic ==
    sessions /= NoSessions
        => \A name \in AchievementNames :
              /\ ~sessions.overlapped => Cardinality(BadgeRowsOf(name)) <= 1
              /\ (Awarded(1, name) /\ Awarded(2, name))
                    => /\ Cardinality(BadgeRowsOf(name)) = 2
                       /\ PersistedXP
                             <= sessions.before.xp + TotalAwardedXP - AchievementXP(name)

\* C30 witness: both calls have awarded consistency_king and two rows are left
C30_Witness ==
    /\ sessions /= NoSessions
    /\ sessions.overlapped
    /\ Awarded(1, "consistency_king")
    /\ Awarded(2, "consistency_king")
    /\ Cardinality(BadgeRowsOf("consistency_king")) = 2

\* C30 as stated: the two awards leave the achievement XP added twice
C30_AchievementXpAddedTwice ==
    sessions /= NoSessions
        => \A name \in AchievementNames :
              (Awarded(1, name) /\ Awarded(2, name))
                 => /\ Cardinality(BadgeRowsOf(name)) = 2
                    /\ PersistedXP >= sessions.before.xp + 2 * AchievementXP(name)

====
